---- MODULE Spec2Model ----
(***************************************************************************)
(* A model of renfield-mcp-jellyfin (src/renfield_mcp_jellyfin/server.py): *)
(* thirteen MCP tool handlers, each of which passes the configuration      *)
(* gate, builds one query-parameter set, issues one HTTP GET against the   *)
(* Jellyfin server and projects the JSON answer to a compact result.       *)
(*                                                                         *)
(* JSON values are tagged records; a JSON object (a Python dict) is a      *)
(* sequence of <<key, value>> pairs in insertion order, as a Python dict   *)
(* keeps it.                                                               *)
(***************************************************************************)
EXTENDS Integers, Sequences, FiniteSets, TLC

VARIABLES
    JELLYFIN_URL,       \* server.py:31, the base URL after rstrip("/")
    JELLYFIN_API_KEY,   \* server.py:32
    JELLYFIN_USER_ID,   \* server.py:33
    calls,              \* the tool invocations the host runtime has dispatched
    arg,                \* the arguments of a direct call of a helper function
    ret                 \* what that call returned

vars == <<JELLYFIN_URL, JELLYFIN_API_KEY, JELLYFIN_USER_ID, calls, arg, ret>>

config == <<JELLYFIN_URL, JELLYFIN_API_KEY, JELLYFIN_USER_ID>>

----------------------------------------------------------------------------
(* Bounds of the model.                                                    *)

\* how many invocation slots the host runtime has
NumCalls == 1
\* how far around each clamping boundary (1, 50, 100, 200) limits are drawn
MaxOver == 2
\* the longest upstream Items sequence
MaxItems == 2
\* the longest requested field sequence given to _format_item directly
MaxFields == 2
\* the largest whole number of seconds (either sign) given to _format_duration
MaxSeconds == 130
\* the largest count the /Items/Counts endpoint reports for one field
MaxCount == 1
\* how many tool calls the host runtime has in flight at once
NumTasks == 2

----------------------------------------------------------------------------
(* JSON values.                                                            *)

Null == [t |-> "null"]
Str(s) == [t |-> "str", s |-> s]
Num(n) == [t |-> "int", n |-> n]
List(xs) == [t |-> "list", xs |-> xs]
Dict(d) == [t |-> "dict", d |-> d]

\* Python's truth value of a JSON value (None, "", 0, [] and {} are falsy)
Truthy(v) ==
    CASE v.t = "null" -> FALSE
      [] v.t = "str" -> v.s /= ""
      [] v.t = "int" -> v.n /= 0
      [] v.t = "list" -> v.xs /= <<>>
      [] v.t = "dict" -> v.d /= <<>>

\* the keys of a dict, in insertion order
Keys(d) == [i \in 1..Len(d) |-> d[i][1]]

HasKey(d, k) == \E i \in 1..Len(d) : d[i][1] = k

\* dict.get(k, default)
GetOr(d, k, default) ==
    IF HasKey(d, k)
    THEN d[CHOOSE i \in 1..Len(d) : d[i][1] = k][2]
    ELSE default

\* dict.get(k): None when the key is missing
Get(d, k) == GetOr(d, k, Null)

\* d[k] = v: an existing key keeps its place, a new key goes last
Put(d, k, v) ==
    IF HasKey(d, k)
    THEN [i \in 1..Len(d) |-> IF d[i][1] = k THEN <<k, v>> ELSE d[i]]
    ELSE Append(d, <<k, v>>)

----------------------------------------------------------------------------
(* String formatting.                                                      *)

Digits == <<"0", "1", "2", "3", "4", "5", "6", "7", "8", "9">>

\* str(n) of an integer, as an f-string field writes it
RECURSIVE DecStr(_)
DecStr(n) ==
    IF n < 0 THEN "-" \o DecStr(-n)
    ELSE IF n < 10 THEN Digits[n + 1]
    ELSE DecStr(n \div 10) \o Digits[(n % 10) + 1]

\* the format spec 02d: zero-padded to a width of at least two
Format02d(n) == IF n >= 0 /\ n < 10 THEN "0" \o DecStr(n) ELSE DecStr(n)

\* a value interpolated into an f-string
FStr(v) == IF v.t = "int" THEN DecStr(v.n) ELSE v.s

\* "".join(chars)
RECURSIVE Join(_)
Join(chars) == IF chars = <<>> THEN "" ELSE Head(chars) \o Join(Tail(chars))

\* str.rstrip("/") on a string given as its characters
RECURSIVE RStripSlash(_)
RStripSlash(chars) ==
    IF chars /= <<>> /\ chars[Len(chars)] = "/"
    THEN RStripSlash(SubSeq(chars, 1, Len(chars) - 1))
    ELSE chars

----------------------------------------------------------------------------
(* Configuration (server.py:31-53).                                        *)

SORT_MAP ==
    << <<"name", "SortName">>,
       <<"added", "DateCreated">>,
       <<"year", "PremiereDate">>,
       <<"rating", "CommunityRating">>,
       <<"random", "Random">> >>

ErrorDict(name) == << <<"error", Str(name \o " not configured")>> >>

NoError == Null

\* a gate that checks the API key before the URL
CheckConfigKeyFirst ==
    IF JELLYFIN_API_KEY = "" THEN Dict(ErrorDict("JELLYFIN_API_KEY"))
    ELSE IF JELLYFIN_URL = "" THEN Dict(ErrorDict("JELLYFIN_URL"))
    ELSE IF JELLYFIN_USER_ID = "" THEN Dict(ErrorDict("JELLYFIN_USER_ID"))
    ELSE NoError

\* _check_config(): an error dict, or None
check_config ==
    IF JELLYFIN_URL = "" THEN Dict(ErrorDict("JELLYFIN_URL"))
    ELSE IF JELLYFIN_API_KEY = "" THEN Dict(ErrorDict("JELLYFIN_API_KEY"))
    ELSE IF JELLYFIN_USER_ID = "" THEN Dict(ErrorDict("JELLYFIN_USER_ID"))
    ELSE NoError

----------------------------------------------------------------------------
(* _format_duration (server.py:66-73).                                     *)

TICKS_PER_SECOND == 10000000

\* a formatter that writes the seconds without padding
FormatDurationUnpadded(ticks) ==
    IF ~Truthy(ticks) THEN Null
    ELSE LET total_seconds == ticks.n \div TICKS_PER_SECOND
             minutes == total_seconds \div 60
             seconds == total_seconds % 60
         IN  Str(DecStr(minutes) \o ":" \o DecStr(seconds))

format_duration(ticks) ==
    IF ~Truthy(ticks) THEN Null
    ELSE LET total_seconds == ticks.n \div TICKS_PER_SECOND
             minutes == total_seconds \div 60
             seconds == total_seconds % 60
         IN  Str(DecStr(minutes) \o ":" \o Format02d(seconds))

----------------------------------------------------------------------------
(* _format_item (server.py:76-111).                                        *)

\* (x or [None])[0] for a list-valued source
FirstOrNone(x) == (IF Truthy(x) THEN x ELSE List(<<Null>>)).xs[1]

\* (x or [{}])[0] for MediaSources
FirstSource(x) == (IF Truthy(x) THEN x ELSE List(<<Dict(<<>>)>>)).xs[1]

\* the keys of the extractors dict
Vocabulary ==
    { "id", "name", "artist", "album_artist", "album", "year", "genre",
      "index", "duration", "overview", "child_count", "type", "path",
      "container", "stream_url", "api_stream" }

\* extractors[f](raw)
Extract(f, r) ==
    CASE f = "id" -> Get(r, "Id")
      [] f = "name" -> Get(r, "Name")
      [] f = "artist" -> FirstOrNone(Get(r, "Artists"))
      [] f = "album_artist" -> Get(r, "AlbumArtist")
      [] f = "album" -> Get(r, "Album")
      [] f = "year" -> Get(r, "ProductionYear")
      [] f = "genre" -> FirstOrNone(Get(r, "Genres"))
      [] f = "index" -> Get(r, "IndexNumber")
      [] f = "duration" -> format_duration(Get(r, "RunTimeTicks"))
      [] f = "overview" -> Get(r, "Overview")
      [] f = "child_count" -> Get(r, "ChildCount")
      [] f = "type" -> Get(r, "Type")
      [] f = "path" -> Get(r, "Path")
      [] f = "container" -> Get(FirstSource(Get(r, "MediaSources")).d, "Container")
      [] f = "stream_url" -> Get(FirstSource(Get(r, "MediaSources")).d, "Path")
      [] f = "api_stream" ->
            IF Truthy(Get(r, "Id"))
            THEN Str(JELLYFIN_URL \o "/Audio/" \o FStr(Get(r, "Id"))
                     \o "/universal?api_key=" \o JELLYFIN_API_KEY)
            ELSE Null

\* a loop body that stores every extracted value, None included
RECURSIVE FormatItemKeepNone(_, _)
FormatItemKeepNone(raw, fields) ==
    IF fields = <<>> THEN <<>>
    ELSE LET n == Len(fields)
             f == fields[n]
             result == FormatItemKeepNone(raw, SubSeq(fields, 1, n - 1))
         IN  IF f \in Vocabulary THEN Put(result, f, Extract(f, raw)) ELSE result

\* the for loop of _format_item, last iteration outermost
RECURSIVE format_item(_, _)
format_item(raw, fields) ==
    IF fields = <<>> THEN <<>>
    ELSE LET n == Len(fields)
             f == fields[n]
             result == format_item(raw, SubSeq(fields, 1, n - 1))
         IN  IF f \in Vocabulary /\ Extract(f, raw) /= Null
             THEN Put(result, f, Extract(f, raw))
             ELSE result

----------------------------------------------------------------------------
(* _jellyfin_get (server.py:56-63) and the request of each tool.           *)

Max2(a, b) == IF a >= b THEN a ELSE b
Min2(a, b) == IF a <= b THEN a ELSE b

\* a clamp that forgets the lower end: min(limit, most)
ClampNoFloor(limit, most) == Min2(limit, most)

\* max(1, min(limit, most))
Clamp(limit, most) == Max2(1, Min2(limit, most))

\* the url and the query parameters of the GET: api_key is set last
jellyfin_get(path, params) ==
    [url |-> JELLYFIN_URL \o path,
     params |-> Put(params, "api_key", Str(JELLYFIN_API_KEY))]

UserItems == "/Users/" \o JELLYFIN_USER_ID \o "/Items"

\* a filter sent whether or not the caller gave one
PutAlways(params, k, v) == Put(params, k, Str(v))

\* params[k] = v when v is a non-empty string
PutIf(params, k, v) == IF v /= "" THEN Put(params, k, Str(v)) ELSE params

search_media_request(a) ==
    jellyfin_get("/Items",
        << <<"searchTerm", Str(a.query)>>,
           <<"IncludeItemTypes", Str(a.type)>>,
           <<"Recursive", Str("true")>>,
           <<"Limit", Num(Clamp(a.limit, 50))>>,
           <<"Fields", Str("Genres,Artists,AlbumArtist,Album,ProductionYear,RunTimeTicks")>> >>)

\* list_albums with the descending set of list_movies
ListAlbumsRatingDescending(a) ==
    jellyfin_get(UserItems,
        PutIf(PutIf(
            << <<"IncludeItemTypes", Str("MusicAlbum")>>,
               <<"Recursive", Str("true")>>,
               <<"Limit", Num(Clamp(a.limit, 100))>>,
               <<"SortBy", Str(GetOr(SORT_MAP, a.sort, "SortName"))>>,
               <<"SortOrder", Str(IF a.sort \in {"added", "year", "rating"}
                                  THEN "Descending" ELSE "Ascending")>>,
               <<"Fields", Str("Genres,Artists,AlbumArtist,ProductionYear")>> >>,
            "Artists", a.artist), "Genres", a.genre))

list_albums_request(a) ==
    jellyfin_get(UserItems,
        PutIf(PutIf(
            << <<"IncludeItemTypes", Str("MusicAlbum")>>,
               <<"Recursive", Str("true")>>,
               <<"Limit", Num(Clamp(a.limit, 100))>>,
               <<"SortBy", Str(GetOr(SORT_MAP, a.sort, "SortName"))>>,
               <<"SortOrder", Str(IF a.sort \in {"added", "year"}
                                  THEN "Descending" ELSE "Ascending")>>,
               <<"Fields", Str("Genres,Artists,AlbumArtist,ProductionYear")>> >>,
            "Artists", a.artist), "Genres", a.genre))

list_artists_request(a) ==
    jellyfin_get("/Artists",
        << <<"Limit", Num(Clamp(a.limit, 200))>>,
           <<"Fields", Str("Genres,Overview")>> >>)

get_album_tracks_request(a) ==
    jellyfin_get(UserItems,
        << <<"ParentId", Str(a.id)>>,
           <<"IncludeItemTypes", Str("Audio")>>,
           <<"SortBy", Str("IndexNumber")>>,
           <<"Fields", Str("Artists,Album,RunTimeTicks")>> >>)

get_artist_albums_request(a) ==
    jellyfin_get(UserItems,
        << <<"ArtistIds", Str(a.id)>>,
           <<"IncludeItemTypes", Str("MusicAlbum")>>,
           <<"Recursive", Str("true")>>,
           <<"SortBy", Str("PremiereDate")>>,
           <<"SortOrder", Str("Descending")>>,
           <<"Fields", Str("Genres,ProductionYear")>> >>)

list_genres_request(a) ==
    jellyfin_get("/MusicGenres", << <<"Limit", Num(50)>> >>)

get_recent_request(a) ==
    jellyfin_get(UserItems \o "/Latest",
        << <<"IncludeItemTypes", Str(a.type)>>,
           <<"Limit", Num(Clamp(a.limit, 50))>>,
           <<"Fields", Str("Genres,Artists,AlbumArtist,Album,ProductionYear")>> >>)

get_favorites_request(a) ==
    jellyfin_get(UserItems,
        << <<"IncludeItemTypes", Str("Audio,MusicAlbum")>>,
           <<"Recursive", Str("true")>>,
           <<"Filters", Str("IsFavorite")>>,
           <<"Limit", Num(Clamp(a.limit, 100))>>,
           <<"Fields", Str("Genres,Artists,Album,ProductionYear,RunTimeTicks")>> >>)

get_playlists_request(a) ==
    jellyfin_get(UserItems,
        << <<"IncludeItemTypes", Str("Playlist")>>,
           <<"Recursive", Str("true")>>,
           <<"Limit", Num(Clamp(a.limit, 100))>>,
           <<"Fields", Str("ChildCount,Overview")>> >>)

list_movies_request(a) ==
    jellyfin_get(UserItems,
        PutIf(
            << <<"IncludeItemTypes", Str("Movie")>>,
               <<"Recursive", Str("true")>>,
               <<"Limit", Num(Clamp(a.limit, 100))>>,
               <<"SortBy", Str(GetOr(SORT_MAP, a.sort, "DateCreated"))>>,
               <<"SortOrder", Str(IF a.sort \in {"added", "year", "rating"}
                                  THEN "Descending" ELSE "Ascending")>>,
               <<"Fields", Str("Genres,ProductionYear,Overview,CommunityRating")>> >>,
            "Genres", a.genre))

\* list_series with the fallback sort field of list_albums
ListSeriesSortNameFallback(a) ==
    jellyfin_get(UserItems,
        PutIf(
            << <<"IncludeItemTypes", Str("Series")>>,
               <<"Recursive", Str("true")>>,
               <<"Limit", Num(Clamp(a.limit, 100))>>,
               <<"SortBy", Str(GetOr(SORT_MAP, a.sort, "SortName"))>>,
               <<"SortOrder", Str(IF a.sort \in {"added", "year", "rating"}
                                  THEN "Descending" ELSE "Ascending")>>,
               <<"Fields", Str("Genres,ProductionYear,Overview,CommunityRating")>> >>,
            "Genres", a.genre))

list_series_request(a) ==
    jellyfin_get(UserItems,
        PutIf(
            << <<"IncludeItemTypes", Str("Series")>>,
               <<"Recursive", Str("true")>>,
               <<"Limit", Num(Clamp(a.limit, 100))>>,
               <<"SortBy", Str(GetOr(SORT_MAP, a.sort, "DateCreated"))>>,
               <<"SortOrder", Str(IF a.sort \in {"added", "year", "rating"}
                                  THEN "Descending" ELSE "Ascending")>>,
               <<"Fields", Str("Genres,ProductionYear,Overview,CommunityRating")>> >>,
            "Genres", a.genre))

get_stream_url_request(a) ==
    jellyfin_get(UserItems \o "/" \o a.id,
        << <<"Fields", Str("MediaSources,Path")>> >>)

library_stats_request(a) == jellyfin_get("/Items/Counts", <<>>)

----------------------------------------------------------------------------
(* What each tool makes of the parsed JSON answer.                         *)

\* data.get("Items", [])
ItemsOf(data) == GetOr(data.d, "Items", List(<<>>)).xs

\* [_format_item(it, fields) for it in raw_items]
FormatAll(raw_items, fields) ==
    List([i \in 1..Len(raw_items) |-> Dict(format_item(raw_items[i].d, fields))])

\* an envelope that leaves out the items whose projection is empty
EnvelopeSkippingEmpty(data, fields) ==
    Dict(<< <<"total", GetOr(data.d, "TotalRecordCount", Num(0))>>,
            <<"items", List(SelectSeq(FormatAll(ItemsOf(data), fields).xs,
                                      LAMBDA item : item.d /= <<>>))>> >>)

\* {"total": data.get("TotalRecordCount", 0), "items": items}
Envelope(data, fields) ==
    Dict(<< <<"total", GetOr(data.d, "TotalRecordCount", Num(0))>>,
            <<"items", FormatAll(ItemsOf(data), fields)>> >>)

FallbackFields == <<"id", "name", "type", "year">>

\* a search table whose Audio row has album before artist
SearchFieldsAlbumFirst(type) ==
    GetOr(<< <<"Audio", <<"id", "name", "album", "artist", "year", "duration", "api_stream">> >>,
             <<"MusicAlbum", <<"id", "name", "album_artist", "year", "genre">> >>,
             <<"MusicArtist", <<"id", "name", "genre", "overview">> >>,
             <<"Movie", <<"id", "name", "year", "genre", "overview">> >>,
             <<"Series", <<"id", "name", "year", "genre", "overview">> >> >>,
          type, FallbackFields)

\* field_map.get(type, [...]) of search_media
SearchFields(type) ==
    GetOr(<< <<"Audio", <<"id", "name", "artist", "album", "year", "duration", "api_stream">> >>,
             <<"MusicAlbum", <<"id", "name", "album_artist", "year", "genre">> >>,
             <<"MusicArtist", <<"id", "name", "genre", "overview">> >>,
             <<"Movie", <<"id", "name", "year", "genre", "overview">> >>,
             <<"Series", <<"id", "name", "year", "genre", "overview">> >> >>,
          type, FallbackFields)

\* field_map.get(type, [...]) of get_recent
RecentFields(type) ==
    GetOr(<< <<"Audio", <<"id", "name", "artist", "album", "year">> >>,
             <<"MusicAlbum", <<"id", "name", "album_artist", "year", "genre">> >>,
             <<"Movie", <<"id", "name", "year", "genre">> >>,
             <<"Series", <<"id", "name", "year", "genre">> >> >>,
          type, FallbackFields)

search_media_result(a, data) == Envelope(data, SearchFields(a.type))

list_albums_result(a, data) ==
    Envelope(data, <<"id", "name", "album_artist", "year", "genre">>)

list_artists_result(a, data) ==
    Envelope(data, <<"id", "name", "genre", "overview">>)

get_album_tracks_result(a, data) ==
    Envelope(data, <<"id", "name", "index", "artist", "duration", "api_stream">>)

get_artist_albums_result(a, data) ==
    Envelope(data, <<"id", "name", "year", "genre">>)

\* items are built without _format_item: both keys are always set
list_genres_result(a, data) ==
    Dict(<< <<"total", GetOr(data.d, "TotalRecordCount", Num(0))>>,
            <<"items", List([i \in 1..Len(ItemsOf(data)) |->
                  Dict(<< <<"id", Get(ItemsOf(data)[i].d, "Id")>>,
                          <<"name", Get(ItemsOf(data)[i].d, "Name")>> >>)])>> >>)

\* get_recent reporting the server's count, as the other listing tools do
GetRecentServerTotal(a, data) ==
    LET raw_items == IF data.t = "list" THEN data.xs ELSE ItemsOf(data)
        items == FormatAll(raw_items, RecentFields(a.type))
    IN  Dict(<< <<"total", IF data.t = "list" THEN Num(Len(items.xs))
                           ELSE GetOr(data.d, "TotalRecordCount", Num(0))>>,
                <<"items", items>> >>)

get_recent_result(a, data) ==
    LET raw_items == IF data.t = "list" THEN data.xs ELSE ItemsOf(data)
        items == FormatAll(raw_items, RecentFields(a.type))
    IN  Dict(<< <<"total", Num(Len(items.xs))>>, <<"items", items>> >>)

\* get_favorites with the field list of get_album_tracks' last field added
GetFavoritesWithApiStream(a, data) ==
    Envelope(data, <<"id", "name", "type", "artist", "album", "year", "duration",
                     "api_stream">>)

get_favorites_result(a, data) ==
    Envelope(data, <<"id", "name", "type", "artist", "album", "year", "duration">>)

get_playlists_result(a, data) ==
    Envelope(data, <<"id", "name", "child_count", "overview">>)

list_movies_result(a, data) ==
    Envelope(data, <<"id", "name", "year", "genre", "overview">>)

list_series_result(a, data) ==
    Envelope(data, <<"id", "name", "year", "genre", "overview">>)

\* get_stream_url answering an item without Id with an error dict
GetStreamUrlNotFound(a, data) ==
    IF Truthy(Get(data.d, "Id"))
    THEN Dict(format_item(data.d, <<"id", "name", "stream_url", "container", "api_stream">>))
    ELSE Dict(ErrorDict("item"))

get_stream_url_result(a, data) ==
    Dict(format_item(data.d, <<"id", "name", "stream_url", "container", "api_stream">>))

\* library_stats copying a present count and leaving an absent one out
LibraryStatsNoDefault(a, data) ==
    LET copy(out, key, src) ==
            IF HasKey(data.d, src) THEN Put(out, key, Get(data.d, src)) ELSE out
    IN  Dict(copy(copy(copy(copy(copy(copy(<<>>,
            "songs", "SongCount"), "albums", "AlbumCount"),
            "artists", "ArtistCount"), "movies", "MovieCount"),
            "series", "SeriesCount"), "episodes", "EpisodeCount"))

library_stats_result(a, data) ==
    Dict(<< <<"songs", GetOr(data.d, "SongCount", Num(0))>>,
            <<"albums", GetOr(data.d, "AlbumCount", Num(0))>>,
            <<"artists", GetOr(data.d, "ArtistCount", Num(0))>>,
            <<"movies", GetOr(data.d, "MovieCount", Num(0))>>,
            <<"series", GetOr(data.d, "SeriesCount", Num(0))>>,
            <<"episodes", GetOr(data.d, "EpisodeCount", Num(0))>> >>)

\* the request of the handler registered under a tool name
RequestOf(tool, a) ==
    CASE tool = "search_media" -> search_media_request(a)
      [] tool = "list_albums" -> list_albums_request(a)
      [] tool = "list_artists" -> list_artists_request(a)
      [] tool = "get_album_tracks" -> get_album_tracks_request(a)
      [] tool = "get_artist_albums" -> get_artist_albums_request(a)
      [] tool = "list_genres" -> list_genres_request(a)
      [] tool = "get_recent" -> get_recent_request(a)
      [] tool = "get_favorites" -> get_favorites_request(a)
      [] tool = "get_playlists" -> get_playlists_request(a)
      [] tool = "list_movies" -> list_movies_request(a)
      [] tool = "list_series" -> list_series_request(a)
      [] tool = "get_stream_url" -> get_stream_url_request(a)
      [] tool = "library_stats" -> library_stats_request(a)

\* what the handler registered under a tool name makes of an answer
ResultOf(tool, a, data) ==
    CASE tool = "search_media" -> search_media_result(a, data)
      [] tool = "list_albums" -> list_albums_result(a, data)
      [] tool = "list_artists" -> list_artists_result(a, data)
      [] tool = "get_album_tracks" -> get_album_tracks_result(a, data)
      [] tool = "get_artist_albums" -> get_artist_albums_result(a, data)
      [] tool = "list_genres" -> list_genres_result(a, data)
      [] tool = "get_recent" -> get_recent_result(a, data)
      [] tool = "get_favorites" -> get_favorites_result(a, data)
      [] tool = "get_playlists" -> get_playlists_result(a, data)
      [] tool = "list_movies" -> list_movies_result(a, data)
      [] tool = "list_series" -> list_series_result(a, data)
      [] tool = "get_stream_url" -> get_stream_url_result(a, data)
      [] tool = "library_stats" -> library_stats_result(a, data)

----------------------------------------------------------------------------
(* The inputs: the environment, the tool arguments and the upstream JSON.  *)

Calls == 1..NumCalls

SeqsUpTo(S, n) == UNION {[1..k -> S] : k \in 0..n}

HttpJ == <<"h", "t", "t", "p", ":", "/", "/", "j">>

\* os.environ values: unset, set, and a URL written with a trailing slash
EnvUrls == {<<>>, <<"/">>, HttpJ, HttpJ \o <<"/">>}
EnvApiKeys == {"", "k1", "k2"}
EnvUserIds == {"", "u1"}

NoArgs ==
    [query |-> "", type |-> "", limit |-> 0, artist |-> "", genre |-> "",
     sort |-> "", id |-> ""]

Queries == {"queen"}
Types == {"Audio", "MusicAlbum", "MusicArtist", "Movie", "Series", "Playlist"}
Sorts == {"name", "added", "year", "rating", "random", "bogus"}
ArtistFilters == {"", "Queen"}
GenreFilters == {"", "Rock"}
ItemIds == {"a1"}

\* the limits around each end of the clamping ranges, and the two defaults
Limits ==
    UNION {(b - MaxOver)..(b + MaxOver) : b \in {1, 50, 100, 200}} \cup {20, 30}

\* an item that carries every key the listing tools project
Song ==
    << <<"Id", Str("1")>>, <<"Name", Str("Song A")>>,
       <<"Artists", List(<<Str("Artist X")>>)>>, <<"Album", Str("Album Y")>>,
       <<"AlbumArtist", Str("Artist Z")>>, <<"ProductionYear", Num(2020)>>,
       <<"Genres", List(<<Str("Rock"), Str("Pop")>>)>>,
       <<"IndexNumber", Num(1)>>, <<"RunTimeTicks", Num(1800000000)>>,
       <<"Overview", Str("A song")>>, <<"ChildCount", Num(0)>>,
       <<"Type", Str("Audio")>> >>

Nameless == << <<"Id", Str("g1")>>, <<"Name", Null>>, <<"Artists", List(<<>>)>> >>

Idless == << <<"Name", Str("Rock")>>, <<"RunTimeTicks", Num(0)>> >>

Sourced ==
    << <<"Id", Str("x")>>, <<"Name", Str("Song X")>>,
       <<"MediaSources",
         List(<<Dict(<< <<"Path", Str("/music/song.flac")>>,
                        <<"Container", Str("flac")>> >>)>>)>> >>

\* the raw items the upstream server answers with
UpstreamItems == {Dict(Song), Dict(Nameless), Dict(Idless)}

UpstreamTotals == {0, 7}

\* a key "error" in an upstream answer
UpstreamError == <<"error", Str("Item not found")>>

\* an object that is an error of the upstream server's own, and a listing
\* whose first item has no key at all and whose count is below its length
OddListings ==
    { Dict(<<UpstreamError>>),
      Dict(<< <<"Items", List(<<Dict(<<>>), Dict(Song)>>)>>,
              <<"TotalRecordCount", Num(1)>> >>) }

\* an object with Items and TotalRecordCount, either of which may be absent
ListingResponses ==
    { Dict(items \o total) :
        items \in {<<>>} \cup
                  { << <<"Items", List(xs)>> >> : xs \in SeqsUpTo(UpstreamItems, MaxItems) },
        total \in {<<>>} \cup
                  { << <<"TotalRecordCount", Num(n)>> >> : n \in UpstreamTotals } }
        \cup OddListings

\* /Items/Latest answers with a bare array
LatestResponses ==
    ListingResponses \cup { List(xs) : xs \in SeqsUpTo(UpstreamItems, MaxItems) }

ItemResponses ==
    UpstreamItems \cup {Dict(Sourced), Dict(<<>>), Dict(<<UpstreamError>> \o Sourced)}

CountKeys ==
    <<"SongCount", "AlbumCount", "ArtistCount", "MovieCount", "SeriesCount",
      "EpisodeCount">>

\* the counts object of a choice f: -1 leaves the field out
RECURSIVE CountsObject(_, _)
CountsObject(f, n) ==
    IF n = 0 THEN <<>>
    ELSE IF f[n] < 0 THEN CountsObject(f, n - 1)
    ELSE Append(CountsObject(f, n - 1), <<CountKeys[n], Num(f[n])>>)

CountsResponses ==
    { Dict(CountsObject(f, Len(CountKeys))) :
        f \in [1..Len(CountKeys) -> (-1)..MaxCount] }
        \cup {Dict(<<UpstreamError>>)}

----------------------------------------------------------------------------
(* The state machine: the module is imported, the host runtime dispatches  *)
(* tool calls, each handler runs to its await, and resumes with the parsed *)
(* JSON or with the exception the GET raised.                              *)

NoRequest == [url |-> "", params |-> <<>>]

IdleCall ==
    [pc |-> "idle", tool |-> "", args |-> NoArgs, request |-> NoRequest,
     gets |-> 0, data |-> Null, result |-> Null]

NoCall == [fn |-> ""]
NotReturned == [t |-> "pending"]

\* server.py:31-33: the three values are read from the environment once
LoadConfig ==
    \E url \in EnvUrls, key \in EnvApiKeys, uid \in EnvUserIds :
        /\ JELLYFIN_URL = Join(RStripSlash(url))
        /\ JELLYFIN_API_KEY = key
        /\ JELLYFIN_USER_ID = uid

Init ==
    /\ LoadConfig
    /\ calls = [c \in Calls |-> IdleCall]
    /\ arg = NoCall
    /\ ret = NotReturned

\* the host runtime has no call in progress
Quiet == \A c \in Calls : calls[c].pc = "idle"

\* dict.update(e)
RECURSIVE Update(_, _)
Update(d, e) == IF e = <<>> THEN d ELSE Update(Put(d, e[1][1], e[1][2]), Tail(e))

\* a handler that builds its query in one dict kept between calls: the keys
\* of a call still awaiting its GET stay in the query of the next one
EnterSharedParams(c, tool, a, req) ==
    /\ calls[c].pc = "idle"
    /\ LET others == {d \in DOMAIN calls : d /= c /\ calls[d].pc = "awaiting"}
           shared == IF others = {} THEN <<>>
                     ELSE calls[CHOOSE d \in others : TRUE].request.params
       IN  calls' = [calls EXCEPT ![c] =
               IF check_config /= NoError
               THEN [pc |-> "returned", tool |-> tool, args |-> a,
                     request |-> NoRequest, gets |-> 0, data |-> Null,
                     result |-> check_config]
               ELSE [pc |-> "awaiting", tool |-> tool, args |-> a,
                     request |-> [url |-> req.url,
                                  params |-> Update(shared, req.params)],
                     gets |-> 1, data |-> Null, result |-> Null]]
    /\ UNCHANGED <<config, arg, ret>>

\* a handler from its entry to its first suspension: the gate, then the GET
Enter(c, tool, a, req) ==
    /\ calls[c].pc = "idle"
    /\ calls' = [calls EXCEPT ![c] =
            IF check_config /= NoError
            THEN [pc |-> "returned", tool |-> tool, args |-> a,
                  request |-> NoRequest, gets |-> 0, data |-> Null,
                  result |-> check_config]
            ELSE [pc |-> "awaiting", tool |-> tool, args |-> a,
                  request |-> req, gets |-> 1, data |-> Null,
                  result |-> Null]]
    /\ UNCHANGED <<config, arg, ret>>

\* the host runtime dispatches a call when none is in progress
Begin(c, tool, a, req) == Quiet /\ Enter(c, tool, a, req)

\* call c is suspended in the handler of tool, awaiting its GET
Awaiting(c, tool) == calls[c].pc = "awaiting" /\ calls[c].tool = tool

\* a handler from the answer of its GET to its return
Resume(c, tool, data, result) ==
    /\ calls[c].pc = "awaiting"
    /\ calls[c].tool = tool
    /\ calls' = [calls EXCEPT ![c].pc = "returned", ![c].data = data,
                              ![c].result = result]
    /\ UNCHANGED <<config, arg, ret>>

search_media(c) ==
    \/ Quiet /\ \E q \in Queries, ty \in Types, l \in Limits :
         LET a == [NoArgs EXCEPT !.query = q, !.type = ty, !.limit = l]
         IN  Begin(c, "search_media", a, search_media_request(a))
    \/ Awaiting(c, "search_media") /\ \E data \in ListingResponses :
         Resume(c, "search_media", data, search_media_result(calls[c].args, data))

list_albums(c) ==
    \/ Quiet /\ \E ar \in ArtistFilters, g \in GenreFilters, s \in Sorts, l \in Limits :
         LET a == [NoArgs EXCEPT !.artist = ar, !.genre = g, !.sort = s, !.limit = l]
         IN  Begin(c, "list_albums", a, list_albums_request(a))
    \/ Awaiting(c, "list_albums") /\ \E data \in ListingResponses :
         Resume(c, "list_albums", data, list_albums_result(calls[c].args, data))

list_artists(c) ==
    \/ Quiet /\ \E l \in Limits :
         LET a == [NoArgs EXCEPT !.limit = l]
         IN  Begin(c, "list_artists", a, list_artists_request(a))
    \/ Awaiting(c, "list_artists") /\ \E data \in ListingResponses :
         Resume(c, "list_artists", data, list_artists_result(calls[c].args, data))

get_album_tracks(c) ==
    \/ Quiet /\ \E id \in ItemIds :
         LET a == [NoArgs EXCEPT !.id = id]
         IN  Begin(c, "get_album_tracks", a, get_album_tracks_request(a))
    \/ Awaiting(c, "get_album_tracks") /\ \E data \in ListingResponses :
         Resume(c, "get_album_tracks", data,
                get_album_tracks_result(calls[c].args, data))

get_artist_albums(c) ==
    \/ Quiet /\ \E id \in ItemIds :
         LET a == [NoArgs EXCEPT !.id = id]
         IN  Begin(c, "get_artist_albums", a, get_artist_albums_request(a))
    \/ Awaiting(c, "get_artist_albums") /\ \E data \in ListingResponses :
         Resume(c, "get_artist_albums", data,
                get_artist_albums_result(calls[c].args, data))

list_genres(c) ==
    \/ Quiet /\ Begin(c, "list_genres", NoArgs, list_genres_request(NoArgs))
    \/ Awaiting(c, "list_genres") /\ \E data \in ListingResponses :
         Resume(c, "list_genres", data, list_genres_result(calls[c].args, data))

get_recent(c) ==
    \/ Quiet /\ \E ty \in Types, l \in Limits :
         LET a == [NoArgs EXCEPT !.type = ty, !.limit = l]
         IN  Begin(c, "get_recent", a, get_recent_request(a))
    \/ Awaiting(c, "get_recent") /\ \E data \in LatestResponses :
         Resume(c, "get_recent", data, get_recent_result(calls[c].args, data))

get_favorites(c) ==
    \/ Quiet /\ \E l \in Limits :
         LET a == [NoArgs EXCEPT !.limit = l]
         IN  Begin(c, "get_favorites", a, get_favorites_request(a))
    \/ Awaiting(c, "get_favorites") /\ \E data \in ListingResponses :
         Resume(c, "get_favorites", data, get_favorites_result(calls[c].args, data))

get_playlists(c) ==
    \/ Quiet /\ \E l \in Limits :
         LET a == [NoArgs EXCEPT !.limit = l]
         IN  Begin(c, "get_playlists", a, get_playlists_request(a))
    \/ Awaiting(c, "get_playlists") /\ \E data \in ListingResponses :
         Resume(c, "get_playlists", data, get_playlists_result(calls[c].args, data))

list_movies(c) ==
    \/ Quiet /\ \E g \in GenreFilters, s \in Sorts, l \in Limits :
         LET a == [NoArgs EXCEPT !.genre = g, !.sort = s, !.limit = l]
         IN  Begin(c, "list_movies", a, list_movies_request(a))
    \/ Awaiting(c, "list_movies") /\ \E data \in ListingResponses :
         Resume(c, "list_movies", data, list_movies_result(calls[c].args, data))

list_series(c) ==
    \/ Quiet /\ \E g \in GenreFilters, s \in Sorts, l \in Limits :
         LET a == [NoArgs EXCEPT !.genre = g, !.sort = s, !.limit = l]
         IN  Begin(c, "list_series", a, list_series_request(a))
    \/ Awaiting(c, "list_series") /\ \E data \in ListingResponses :
         Resume(c, "list_series", data, list_series_result(calls[c].args, data))

get_stream_url(c) ==
    \/ Quiet /\ \E id \in ItemIds :
         LET a == [NoArgs EXCEPT !.id = id]
         IN  Begin(c, "get_stream_url", a, get_stream_url_request(a))
    \/ Awaiting(c, "get_stream_url") /\ \E data \in ItemResponses :
         Resume(c, "get_stream_url", data, get_stream_url_result(calls[c].args, data))

library_stats(c) ==
    \/ Quiet /\ Begin(c, "library_stats", NoArgs, library_stats_request(NoArgs))
    \/ Awaiting(c, "library_stats") /\ \E data \in CountsResponses :
         Resume(c, "library_stats", data, library_stats_result(calls[c].args, data))

\* a failure of the GET caught in the handler and returned as an error dict
GetRaisesReturnsError(c) ==
    /\ calls[c].pc = "awaiting"
    /\ calls' = [calls EXCEPT ![c].pc = "returned",
                              ![c].result = Dict(ErrorDict("Jellyfin"))]
    /\ UNCHANGED <<config, arg, ret>>

\* a GET that is sent again when it fails
GetRaisesRetry(c) ==
    /\ calls[c].pc = "awaiting"
    /\ calls[c].gets < 3
    /\ calls' = [calls EXCEPT ![c].gets = @ + 1]
    /\ UNCHANGED <<config, arg, ret>>

\* server.py:60-63: the GET times out or fails, raise_for_status or json()
\* raises, and the exception leaves the handler
GetRaises(c) ==
    /\ calls[c].pc = "awaiting"
    /\ calls' = [calls EXCEPT ![c].pc = "raised"]
    /\ UNCHANGED <<config, arg, ret>>

\* the host runtime takes the outcome of a finished call
Collect(c) ==
    /\ calls[c].pc \in {"returned", "raised"}
    /\ calls' = [calls EXCEPT ![c] = IdleCall]
    /\ UNCHANGED <<config, arg, ret>>

Next ==
    \E c \in Calls :
        \/ search_media(c)
        \/ list_albums(c)
        \/ list_artists(c)
        \/ get_album_tracks(c)
        \/ get_artist_albums(c)
        \/ list_genres(c)
        \/ get_recent(c)
        \/ get_favorites(c)
        \/ get_playlists(c)
        \/ list_movies(c)
        \/ list_series(c)
        \/ get_stream_url(c)
        \/ library_stats(c)
        \/ GetRaises(c)
        \/ Collect(c)

Spec == Init /\ [][Next]_vars

----------------------------------------------------------------------------
(* The host runtime dispatching tool calls concurrently: every handler is  *)
(* a coroutine of one event loop, which runs it from its entry to the      *)
(* await of its GET and, when the GET has answered, from there to its      *)
(* return; between the two, handlers of other calls run.                   *)

Tasks == 1..NumTasks

\* the arguments the concurrent calls are made with: the defaults of each
\* signature, and two types for search_media
TaskArgs(tool) ==
    CASE tool = "search_media" ->
            { [NoArgs EXCEPT !.query = "queen", !.type = ty, !.limit = 20] :
                ty \in {"Audio", "Movie"} }
      [] tool = "list_albums" -> { [NoArgs EXCEPT !.sort = "name", !.limit = 50] }
      [] tool \in {"list_artists", "get_favorites"} -> { [NoArgs EXCEPT !.limit = 50] }
      [] tool \in {"get_album_tracks", "get_artist_albums", "get_stream_url"} ->
            { [NoArgs EXCEPT !.id = "a1"] }
      [] tool \in {"list_genres", "library_stats"} -> {NoArgs}
      [] tool = "get_recent" -> { [NoArgs EXCEPT !.type = "MusicAlbum", !.limit = 20] }
      [] tool = "get_playlists" -> { [NoArgs EXCEPT !.limit = 30] }
      [] tool \in {"list_movies", "list_series"} ->
            { [NoArgs EXCEPT !.sort = "added", !.limit = 50] }

\* the answer the upstream server gives a concurrent call
TaskAnswers(tool) ==
    CASE tool = "get_recent" -> {List(<<Dict(Song)>>)}
      [] tool = "get_stream_url" -> {Dict(Sourced)}
      [] tool = "library_stats" -> {Dict(<< <<"SongCount", Num(1)>> >>)}
      [] OTHER ->
            { Dict(<< <<"Items", List(<<Dict(Song)>>)>>,
                      <<"TotalRecordCount", Num(7)>> >>) }

InitConcurrent ==
    /\ LoadConfig
    /\ calls = [c \in Tasks |-> IdleCall]
    /\ arg = NoCall
    /\ ret = NotReturned

search_media_task(c) ==
    \/ calls[c].pc = "idle" /\ \E a \in TaskArgs("search_media") :
         Enter(c, "search_media", a, search_media_request(a))
    \/ Awaiting(c, "search_media") /\ \E data \in TaskAnswers("search_media") :
         Resume(c, "search_media", data, search_media_result(calls[c].args, data))

list_albums_task(c) ==
    \/ calls[c].pc = "idle" /\ \E a \in TaskArgs("list_albums") :
         Enter(c, "list_albums", a, list_albums_request(a))
    \/ Awaiting(c, "list_albums") /\ \E data \in TaskAnswers("list_albums") :
         Resume(c, "list_albums", data, list_albums_result(calls[c].args, data))

list_artists_task(c) ==
    \/ calls[c].pc = "idle" /\ \E a \in TaskArgs("list_artists") :
         Enter(c, "list_artists", a, list_artists_request(a))
    \/ Awaiting(c, "list_artists") /\ \E data \in TaskAnswers("list_artists") :
         Resume(c, "list_artists", data, list_artists_result(calls[c].args, data))

get_album_tracks_task(c) ==
    \/ calls[c].pc = "idle" /\ \E a \in TaskArgs("get_album_tracks") :
         Enter(c, "get_album_tracks", a, get_album_tracks_request(a))
    \/ Awaiting(c, "get_album_tracks") /\ \E data \in TaskAnswers("get_album_tracks") :
         Resume(c, "get_album_tracks", data,
                get_album_tracks_result(calls[c].args, data))

get_artist_albums_task(c) ==
    \/ calls[c].pc = "idle" /\ \E a \in TaskArgs("get_artist_albums") :
         Enter(c, "get_artist_albums", a, get_artist_albums_request(a))
    \/ Awaiting(c, "get_artist_albums") /\ \E data \in TaskAnswers("get_artist_albums") :
         Resume(c, "get_artist_albums", data,
                get_artist_albums_result(calls[c].args, data))

list_genres_task(c) ==
    \/ calls[c].pc = "idle" /\ \E a \in TaskArgs("list_genres") :
         Enter(c, "list_genres", a, list_genres_request(a))
    \/ Awaiting(c, "list_genres") /\ \E data \in TaskAnswers("list_genres") :
         Resume(c, "list_genres", data, list_genres_result(calls[c].args, data))

get_recent_task(c) ==
    \/ calls[c].pc = "idle" /\ \E a \in TaskArgs("get_recent") :
         Enter(c, "get_recent", a, get_recent_request(a))
    \/ Awaiting(c, "get_recent") /\ \E data \in TaskAnswers("get_recent") :
         Resume(c, "get_recent", data, get_recent_result(calls[c].args, data))

get_favorites_task(c) ==
    \/ calls[c].pc = "idle" /\ \E a \in TaskArgs("get_favorites") :
         Enter(c, "get_favorites", a, get_favorites_request(a))
    \/ Awaiting(c, "get_favorites") /\ \E data \in TaskAnswers("get_favorites") :
         Resume(c, "get_favorites", data, get_favorites_result(calls[c].args, data))

get_playlists_task(c) ==
    \/ calls[c].pc = "idle" /\ \E a \in TaskArgs("get_playlists") :
         Enter(c, "get_playlists", a, get_playlists_request(a))
    \/ Awaiting(c, "get_playlists") /\ \E data \in TaskAnswers("get_playlists") :
         Resume(c, "get_playlists", data, get_playlists_result(calls[c].args, data))

list_movies_task(c) ==
    \/ calls[c].pc = "idle" /\ \E a \in TaskArgs("list_movies") :
         Enter(c, "list_movies", a, list_movies_request(a))
    \/ Awaiting(c, "list_movies") /\ \E data \in TaskAnswers("list_movies") :
         Resume(c, "list_movies", data, list_movies_result(calls[c].args, data))

list_series_task(c) ==
    \/ calls[c].pc = "idle" /\ \E a \in TaskArgs("list_series") :
         Enter(c, "list_series", a, list_series_request(a))
    \/ Awaiting(c, "list_series") /\ \E data \in TaskAnswers("list_series") :
         Resume(c, "list_series", data, list_series_result(calls[c].args, data))

get_stream_url_task(c) ==
    \/ calls[c].pc = "idle" /\ \E a \in TaskArgs("get_stream_url") :
         Enter(c, "get_stream_url", a, get_stream_url_request(a))
    \/ Awaiting(c, "get_stream_url") /\ \E data \in TaskAnswers("get_stream_url") :
         Resume(c, "get_stream_url", data, get_stream_url_result(calls[c].args, data))

library_stats_task(c) ==
    \/ calls[c].pc = "idle" /\ \E a \in TaskArgs("library_stats") :
         Enter(c, "library_stats", a, library_stats_request(a))
    \/ Awaiting(c, "library_stats") /\ \E data \in TaskAnswers("library_stats") :
         Resume(c, "library_stats", data, library_stats_result(calls[c].args, data))

NextConcurrent ==
    \E c \in Tasks :
        \/ search_media_task(c)
        \/ list_albums_task(c)
        \/ list_artists_task(c)
        \/ get_album_tracks_task(c)
        \/ get_artist_albums_task(c)
        \/ list_genres_task(c)
        \/ get_recent_task(c)
        \/ get_favorites_task(c)
        \/ get_playlists_task(c)
        \/ list_movies_task(c)
        \/ list_series_task(c)
        \/ get_stream_url_task(c)
        \/ library_stats_task(c)
        \/ GetRaises(c)
        \/ Collect(c)

SpecConcurrent == InitConcurrent /\ [][NextConcurrent]_vars

----------------------------------------------------------------------------
(* The two helper functions called directly, as the unit tests call them.  *)

\* the typed values the upstream server gives each key the extractors read
ValuesOf(k) ==
    CASE k \in {"Id", "Name", "AlbumArtist", "Album", "Overview", "Type", "Path"} ->
            {Null, Str(""), Str("x")}
      [] k \in {"ProductionYear", "IndexNumber", "ChildCount"} ->
            {Null, Num(0), Num(1975)}
      [] k = "RunTimeTicks" ->
            {Null, Num(0), Num(1), Num(-1), Num(1800000000)}
      [] k \in {"Artists", "Genres"} ->
            {Null, List(<<>>), List(<<Str("A")>>), List(<<Str("A"), Str("B")>>),
             List(<<Null, Str("B")>>)}
      [] k = "MediaSources" ->
            {Null, List(<<>>), List(<<Dict(<<>>)>>),
             List(<<Dict(<< <<"Container", Null>>, <<"Path", Str("/p")>> >>)>>),
             List(<<Dict(<< <<"Path", Str("/music/song.flac")>>,
                            <<"Container", Str("flac")>> >>),
                    Dict(<< <<"Container", Str("mp3")>> >>)>>)}

RawKeys ==
    { "Id", "Name", "Artists", "AlbumArtist", "Album", "ProductionYear",
      "Genres", "IndexNumber", "RunTimeTicks", "Overview", "ChildCount", "Type",
      "Path", "MediaSources" }

\* every key alone with each of its values, the empty item, and the upstream items
RawItems ==
    UNION { { << <<k, v>> >> : v \in ValuesOf(k) } : k \in RawKeys }
        \cup {<<>>, Song, Nameless, Idless, Sourced}

FieldNames == Vocabulary \cup {"bogus"}

TickValues ==
    {Null} \cup { Num(sec * TICKS_PER_SECOND + off) :
                    sec \in (-MaxSeconds)..MaxSeconds,
                    off \in {0, 1, TICKS_PER_SECOND - 1} }

InitFormatItem ==
    /\ LoadConfig
    /\ check_config = NoError
    /\ calls = [c \in Calls |-> IdleCall]
    /\ arg \in { [fn |-> "_format_item", raw |-> r, fields |-> fs] :
                    r \in RawItems, fs \in SeqsUpTo(FieldNames, MaxFields) }
    /\ ret = NotReturned

call_format_item ==
    /\ arg.fn = "_format_item"
    /\ ret = NotReturned
    /\ ret' = Dict(format_item(arg.raw, arg.fields))
    /\ UNCHANGED <<config, calls, arg>>

SpecFormatItem == InitFormatItem /\ [][call_format_item]_vars

InitFormatDuration ==
    /\ LoadConfig
    /\ calls = [c \in Calls |-> IdleCall]
    /\ arg \in { [fn |-> "_format_duration", ticks |-> tk] : tk \in TickValues }
    /\ ret = NotReturned

call_format_duration ==
    /\ arg.fn = "_format_duration"
    /\ ret = NotReturned
    /\ ret' = format_duration(arg.ticks)
    /\ UNCHANGED <<config, calls, arg>>

SpecFormatDuration == InitFormatDuration /\ [][call_format_duration]_vars

----------------------------------------------------------------------------
(* One invocation made in two runs of the server that differ in the API    *)
(* key of their environment and get the same upstream answer.              *)

ToolNames ==
    { "search_media", "list_albums", "list_artists", "get_album_tracks",
      "get_artist_albums", "list_genres", "get_recent", "get_favorites",
      "get_playlists", "list_movies", "list_series", "get_stream_url",
      "library_stats" }

\* the arguments that reach the result of each tool
RunArgs(tool) ==
    IF tool \in {"search_media", "get_recent"}
    THEN { [NoArgs EXCEPT !.type = ty] : ty \in Types }
    ELSE {NoArgs}

\* the answers of the endpoint each tool asks
AnswersOf(tool) ==
    CASE tool = "get_recent" -> LatestResponses
      [] tool = "get_stream_url" -> ItemResponses
      [] tool = "library_stats" -> CountsResponses
      [] OTHER -> ListingResponses

InitTwoRuns ==
    /\ LoadConfig
    /\ check_config = NoError
    /\ calls = [c \in Calls |-> IdleCall]
    /\ arg \in UNION { { [fn |-> "two_runs", tool |-> tool, args |-> a, data |-> data] :
                            a \in RunArgs(tool), data \in AnswersOf(tool) } :
                        tool \in ToolNames }
    /\ ret = NotReturned

\* the invocation in the first run
first_run ==
    /\ arg.fn = "two_runs"
    /\ ret = NotReturned
    /\ ret' = [t |-> "runs", key |-> JELLYFIN_API_KEY,
               first |-> ResultOf(arg.tool, arg.args, arg.data),
               second |-> NotReturned]
    /\ UNCHANGED <<config, calls, arg>>

\* server.py:32: the server is started again with another API key
restart_with_other_key ==
    /\ arg.fn = "two_runs"
    /\ ret /= NotReturned
    /\ ret.key = JELLYFIN_API_KEY
    /\ \E key \in EnvApiKeys \ {"", JELLYFIN_API_KEY} : JELLYFIN_API_KEY' = key
    /\ UNCHANGED <<JELLYFIN_URL, JELLYFIN_USER_ID, calls, arg, ret>>

\* the same invocation in the second run
second_run ==
    /\ arg.fn = "two_runs"
    /\ ret /= NotReturned
    /\ ret.key /= JELLYFIN_API_KEY
    /\ ret.second = NotReturned
    /\ ret' = [ret EXCEPT !.second = ResultOf(arg.tool, arg.args, arg.data)]
    /\ UNCHANGED <<config, calls, arg>>

NextTwoRuns == first_run \/ restart_with_other_key \/ second_run

SpecTwoRuns == InitTwoRuns /\ [][NextTwoRuns]_vars

----------------------------------------------------------------------------
(* Properties.                                                             *)

Range(seq) == {seq[i] : i \in 1..Len(seq)}

IsErrorResult(r) == r.t = "dict" /\ HasKey(r.d, "error")

\* the three required values in the order the claim fixes
RequiredValues ==
    << <<"JELLYFIN_URL", JELLYFIN_URL>>,
       <<"JELLYFIN_API_KEY", JELLYFIN_API_KEY>>,
       <<"JELLYFIN_USER_ID", JELLYFIN_USER_ID>> >>

Incomplete == \E i \in 1..3 : RequiredValues[i][2] = ""

FirstMissing ==
    RequiredValues[CHOOSE i \in 1..3 :
        /\ RequiredValues[i][2] = ""
        /\ \A j \in 1..(i - 1) : RequiredValues[j][2] /= ""][1]

\* C1: with one of the three values empty, every invocation of every tool
\* returns {error: "<NAME> not configured"} for the first empty value in the
\* order URL, API key, user id, and issues no HTTP call; with all three set
\* the gate lets the call through to its one GET and no error is returned.
C1_ConfigGate ==
    \A c \in Calls :
        calls[c].pc /= "idle" =>
            IF Incomplete
            THEN /\ calls[c].pc = "returned"
                 /\ calls[c].result =
                        Dict(<< <<"error", Str(FirstMissing \o " not configured")>> >>)
                 /\ calls[c].gets = 0
                 /\ calls[c].request = NoRequest
            ELSE /\ calls[c].gets = 1
                 /\ ~IsErrorResult(calls[c].result)

C1_Witness ==
    /\ JELLYFIN_URL /= ""
    /\ JELLYFIN_API_KEY = ""
    /\ JELLYFIN_USER_ID = ""
    /\ \E c \in Calls :
        /\ calls[c].tool = "library_stats"
        /\ calls[c].pc = "returned"
        /\ calls[c].gets = 0
        /\ calls[c].result =
               Dict(<< <<"error", Str("JELLYFIN_API_KEY not configured")>> >>)

\* the source key each output field is read from
SourceKey(f) ==
    CASE f \in {"id", "api_stream"} -> "Id"
      [] f = "name" -> "Name"
      [] f = "artist" -> "Artists"
      [] f = "album_artist" -> "AlbumArtist"
      [] f = "album" -> "Album"
      [] f = "year" -> "ProductionYear"
      [] f = "genre" -> "Genres"
      [] f = "index" -> "IndexNumber"
      [] f = "duration" -> "RunTimeTicks"
      [] f = "overview" -> "Overview"
      [] f = "child_count" -> "ChildCount"
      [] f = "type" -> "Type"
      [] f = "path" -> "Path"
      [] f \in {"container", "stream_url"} -> "MediaSources"

\* C2: the result of _format_item has a key only for a requested field of
\* the vocabulary whose extracted value is not null; a source value that is
\* null, missing or an empty list gives no key; no key maps to null; a
\* requested name outside the vocabulary gives no key.
C2_FormatItemKeys ==
    (arg.fn = "_format_item" /\ ret /= NotReturned) =>
        /\ ret.t = "dict"
        /\ \A i \in 1..Len(ret.d) :
            /\ ret.d[i][1] \in Range(arg.fields)
            /\ ret.d[i][1] \in Vocabulary
            /\ ret.d[i][2] /= Null
            /\ ret.d[i][2] = Extract(ret.d[i][1], arg.raw)
            /\ \A j \in 1..Len(ret.d) : ret.d[j][1] = ret.d[i][1] => j = i
        /\ \A f \in Vocabulary :
            Get(arg.raw, SourceKey(f)) \in {Null, List(<<>>)} => ~HasKey(ret.d, f)
        /\ \A f \in Range(arg.fields) \ Vocabulary : ~HasKey(ret.d, f)

C2_Witness ==
    /\ arg.fn = "_format_item"
    /\ arg.raw = Nameless
    /\ arg.fields = <<"artist", "id">>
    /\ ret = Dict(<< <<"id", Str("g1")>> >>)

\* C4: _format_duration returns null for null and for 0; for any other
\* ticks it returns "{minutes}:{seconds}" where totalSeconds is the floor of
\* ticks / 10_000_000, seconds is in 0..59 and written with two digits, and
\* 60 * minutes + seconds = totalSeconds.
C4_FormatDuration ==
    (arg.fn = "_format_duration" /\ ret /= NotReturned) =>
        IF arg.ticks = Null \/ arg.ticks = Num(0)
        THEN ret = Null
        ELSE \E total \in (-MaxSeconds - 1)..(MaxSeconds + 1) :
                /\ total * 10000000 <= arg.ticks.n
                /\ arg.ticks.n < (total + 1) * 10000000
                /\ \E seconds \in 0..59 :
                    /\ (total - seconds) % 60 = 0
                    /\ LET minutes == (total - seconds) \div 60
                       IN  ret = Str(DecStr(minutes) \o ":"
                                     \o Digits[(seconds \div 10) + 1]
                                     \o Digits[(seconds % 10) + 1])

C4_Witness ==
    /\ arg.fn = "_format_duration"
    /\ arg.ticks = Num(1)
    /\ ret = Str("0:00")

\* call c has passed the gate and its handler has run at least to its GET
Started(c, tool) ==
    calls[c].tool = tool /\ calls[c].pc /= "idle" /\ ~Incomplete

\* call c has returned what its handler made of the upstream answer
Answered(c, tool) ==
    calls[c].tool = tool /\ calls[c].pc = "returned" /\ ~Incomplete

ListingTools ==
    { "search_media", "list_albums", "list_artists", "get_album_tracks",
      "get_artist_albums", "list_genres", "get_recent", "get_favorites",
      "get_playlists", "list_movies", "list_series" }

ItemsOfResult(c) == Get(calls[c].result.d, "items").xs

\* C3: every element of the items a listing tool returns holds only keys
\* whose value is not null, list_genres included.
C3_NoNullInItems ==
    \A c \in Calls : \A tool \in ListingTools :
        Answered(c, tool) =>
            \A i \in 1..Len(ItemsOfResult(c)) :
                \A j \in 1..Len(ItemsOfResult(c)[i].d) :
                    ItemsOfResult(c)[i].d[j][2] /= Null

\* the upper end of the limit range of each tool that takes a limit
LimitMax(tool) ==
    CASE tool \in {"search_media", "get_recent"} -> 50
      [] tool \in {"list_albums", "get_favorites", "get_playlists",
                   "list_movies", "list_series"} -> 100
      [] tool = "list_artists" -> 200

LimitTools ==
    { "search_media", "get_recent", "list_albums", "get_favorites",
      "get_playlists", "list_movies", "list_series", "list_artists" }

\* C5: the Limit of the request is max(1, min(limit, MAX)) for every limit,
\* a limit inside 1..MAX is passed unchanged, and no limit gives an error.
C5_LimitClamped ==
    \A c \in Calls : \A tool \in LimitTools :
        Started(c, tool) =>
            LET limit == calls[c].args.limit
                most == LimitMax(tool)
            IN  /\ Get(calls[c].request.params, "Limit") =
                       Num(IF limit < 1 THEN 1 ELSE IF limit > most THEN most ELSE limit)
                /\ ~IsErrorResult(calls[c].result)
                /\ calls[c].gets = 1

C5_Witness ==
    \E c \in Calls :
        /\ Answered(c, "list_artists")
        /\ calls[c].args.limit = 201
        /\ Get(calls[c].request.params, "Limit") = Num(200)
        /\ HasKey(calls[c].result.d, "total")

\* C6: get_recent takes a bare array as well as an object, and total is the
\* number of items returned, whatever TotalRecordCount the server sent.
C6_RecentTotal ==
    \A c \in Calls :
        Answered(c, "get_recent") =>
            /\ Keys(calls[c].result.d) = <<"total", "items">>
            /\ Get(calls[c].result.d, "total") = Num(Len(ItemsOfResult(c)))
            /\ calls[c].data.t = "list" =>
                   Len(ItemsOfResult(c)) = Len(calls[c].data.xs)

C6_Witness ==
    \E c \in Calls :
        /\ Answered(c, "get_recent")
        /\ calls[c].data.t = "dict"
        /\ Get(calls[c].data.d, "TotalRecordCount") = Num(7)
        /\ Len(ItemsOfResult(c)) = 1
        /\ Get(calls[c].result.d, "total") = Num(1)

\* the shared sort table, with the server field an unknown name falls back to
SortByOf(sort, fallback) ==
    CASE sort = "name" -> "SortName"
      [] sort = "added" -> "DateCreated"
      [] sort = "year" -> "PremiereDate"
      [] sort = "rating" -> "CommunityRating"
      [] sort = "random" -> "Random"
      [] OTHER -> fallback

\* C7: list_albums sends the table's SortBy, SortName for an unknown name,
\* and SortOrder Descending exactly for "added" and "year".
C7_AlbumSort ==
    \A c \in Calls :
        Started(c, "list_albums") =>
            LET sort == calls[c].args.sort
                params == calls[c].request.params
            IN  /\ Get(params, "SortBy") = Str(SortByOf(sort, "SortName"))
                /\ Get(params, "SortOrder") =
                       Str(IF sort \in {"added", "year"}
                           THEN "Descending" ELSE "Ascending")

C7_Witness ==
    \E c \in Calls :
        /\ Started(c, "list_albums")
        /\ calls[c].args.sort = "rating"
        /\ Get(calls[c].request.params, "SortBy") = Str("CommunityRating")
        /\ Get(calls[c].request.params, "SortOrder") = Str("Ascending")

DropKey(d, k) == SelectSeq(d, LAMBDA pair : pair[1] /= k)

\* C8: list_movies and list_series send the table's SortBy, DateCreated for
\* an unknown name, SortOrder Descending exactly for "added", "year" and
\* "rating", and for equal arguments the same request but for
\* IncludeItemTypes.
C8_MoviesSeriesSort ==
    \A c \in Calls : \A tool \in {"list_movies", "list_series"} :
        Started(c, tool) =>
            LET sort == calls[c].args.sort
                params == calls[c].request.params
                other == IF tool = "list_movies"
                         THEN list_series_request(calls[c].args)
                         ELSE list_movies_request(calls[c].args)
            IN  /\ Get(params, "SortBy") = Str(SortByOf(sort, "DateCreated"))
                /\ Get(params, "SortOrder") =
                       Str(IF sort \in {"added", "year", "rating"}
                           THEN "Descending" ELSE "Ascending")
                /\ Get(params, "IncludeItemTypes") =
                       Str(IF tool = "list_movies" THEN "Movie" ELSE "Series")
                /\ Get(other.params, "IncludeItemTypes") =
                       Str(IF tool = "list_movies" THEN "Series" ELSE "Movie")
                /\ DropKey(params, "IncludeItemTypes") =
                       DropKey(other.params, "IncludeItemTypes")
                /\ calls[c].request.url = other.url

C8_Witness ==
    \E c \in Calls :
        /\ Started(c, "list_series")
        /\ calls[c].args.sort = "bogus"
        /\ calls[c].args.genre = "Rock"
        /\ Get(calls[c].request.params, "SortBy") = Str("DateCreated")
        /\ Get(calls[c].request.params, "SortOrder") = Str("Ascending")

\* a is b with some elements left out, the rest in b's order
RECURSIVE IsSubseq(_, _)
IsSubseq(a, b) ==
    IF a = <<>> THEN TRUE
    ELSE IF b = <<>> THEN FALSE
    ELSE IF Head(a) = Head(b) THEN IsSubseq(Tail(a), Tail(b))
    ELSE IsSubseq(a, Tail(b))

\* the field sequence the claim gives each type
SearchRow(type) ==
    CASE type = "Audio" ->
            <<"id", "name", "artist", "album", "year", "duration", "api_stream">>
      [] type = "MusicAlbum" -> <<"id", "name", "album_artist", "year", "genre">>
      [] type = "MusicArtist" -> <<"id", "name", "genre", "overview">>
      [] type \in {"Movie", "Series"} -> <<"id", "name", "year", "genre", "overview">>
      [] OTHER -> <<"id", "name", "type", "year">>

\* C9: search_media picks its field sequence by type, [id,name,type,year]
\* for a type outside the table; the keys of each item are a subsequence of
\* that sequence, in its order; total is the upstream TotalRecordCount.
C9_SearchFields ==
    \A c \in Calls :
        Answered(c, "search_media") =>
            LET row == SearchRow(calls[c].args.type)
                data == calls[c].data.d
            IN  /\ \A i \in 1..Len(ItemsOfResult(c)) :
                    LET item == ItemsOfResult(c)[i].d
                        raw == Get(data, "Items").xs[i].d
                    IN  /\ IsSubseq(Keys(item), row)
                        /\ \A f \in Range(row) :
                               HasKey(item, f) <=> Extract(f, raw) /= Null
                /\ Get(calls[c].result.d, "total") =
                       (IF HasKey(data, "TotalRecordCount")
                        THEN Get(data, "TotalRecordCount") ELSE Num(0))

C9_Witness ==
    \E c \in Calls :
        /\ Answered(c, "search_media")
        /\ calls[c].args.type = "Playlist"
        /\ Get(calls[c].data.d, "TotalRecordCount") = Num(7)
        /\ Get(calls[c].result.d, "total") = Num(7)
        /\ Len(ItemsOfResult(c)) = 1
        /\ Keys(ItemsOfResult(c)[1].d) = <<"id", "name", "type", "year">>

\* each key of the result with the upstream field it is read from
StatsKeys ==
    << <<"songs", "SongCount">>, <<"albums", "AlbumCount">>,
       <<"artists", "ArtistCount">>, <<"movies", "MovieCount">>,
       <<"series", "SeriesCount">>, <<"episodes", "EpisodeCount">> >>

\* C10: library_stats returns exactly the six keys, each the upstream count
\* of its field when the field is present and 0 when it is absent.
C10_LibraryStats ==
    \A c \in Calls :
        Answered(c, "library_stats") =>
            /\ Len(calls[c].result.d) = 6
            /\ Range(Keys(calls[c].result.d)) = {StatsKeys[i][1] : i \in 1..6}
            /\ \A i \in 1..6 :
                Get(calls[c].result.d, StatsKeys[i][1]) =
                    (IF HasKey(calls[c].data.d, StatsKeys[i][2])
                     THEN Get(calls[c].data.d, StatsKeys[i][2]) ELSE Num(0))

C10_Witness ==
    \E c \in Calls :
        /\ Answered(c, "library_stats")
        /\ calls[c].data = Dict(<< <<"AlbumCount", Num(1)>> >>)
        /\ Get(calls[c].result.d, "albums") = Num(1)
        /\ Get(calls[c].result.d, "songs") = Num(0)

\* C11: over its whole lifetime an invocation issues at most one GET: one
\* when the configuration is complete, none when it is not; an invocation
\* whose GET failed has issued that one GET and no other.
C11_AtMostOneGet ==
    \A c \in DOMAIN calls :
        /\ calls[c].gets \in {0, 1}
        /\ calls[c].pc = "idle" => calls[c].gets = 0
        /\ calls[c].pc /= "idle" =>
               calls[c].gets = (IF Incomplete THEN 0 ELSE 1)
        /\ calls[c].pc \in {"awaiting", "raised"} =>
               /\ calls[c].gets = 1
               /\ calls[c].request = RequestOf(calls[c].tool, calls[c].args)
               /\ calls[c].result = Null

C11_Witness ==
    \E c \in DOMAIN calls :
        /\ calls[c].tool = "search_media"
        /\ calls[c].pc = "raised"
        /\ calls[c].gets = 1
        /\ calls[c].result = Null

\* every call but c is left as it was
OthersUntouched(c) == \A d \in DOMAIN calls \ {c} : calls'[d] = calls[d]

\* C12: a GET that fails ends its invocation in a failure the host runtime
\* takes: the invocation holds no result (no envelope, no partial result, no
\* error object) and no parsed answer; and whatever calls have failed, a
\* call that returns with the configuration complete returns what its tool
\* makes of its own answer, never an error object.
C12_FailurePropagates ==
    \A c \in DOMAIN calls :
        /\ calls[c].pc = "raised" =>
               /\ calls[c].result = Null
               /\ calls[c].data = Null
               /\ ~Incomplete
        /\ (calls[c].pc = "returned" /\ ~Incomplete) =>
               /\ calls[c].data /= Null
               /\ ~IsErrorResult(calls[c].result)
               /\ calls[c].result =
                      ResultOf(calls[c].tool, calls[c].args, calls[c].data)

C12_Witness ==
    /\ calls[1].pc = "raised"
    /\ calls[1].tool = "list_albums"
    /\ calls[1].result = Null
    /\ calls[2].pc = "returned"
    /\ calls[2].tool = "list_albums"
    /\ Keys(calls[2].result.d) = <<"total", "items">>
    /\ Len(Get(calls[2].result.d, "items").xs) = 1

\* C13: under every interleaving, the request and the result of a call are
\* those its tool makes of the call's own arguments and answer when run
\* alone; a step changes one call and no other; no step changes the
\* configuration.
C13_Independent ==
    [][/\ config' = config
       /\ \E c \in DOMAIN calls : OthersUntouched(c)
       /\ \A c \in DOMAIN calls :
            calls'[c].pc /= "idle" =>
                IF Incomplete
                THEN /\ calls'[c].request = NoRequest
                     /\ calls'[c].result = check_config
                ELSE /\ calls'[c].request = RequestOf(calls'[c].tool, calls'[c].args)
                     /\ IF calls'[c].pc = "returned"
                        THEN calls'[c].result =
                                 ResultOf(calls'[c].tool, calls'[c].args, calls'[c].data)
                        ELSE calls'[c].result = Null]_vars

C13_Witness ==
    /\ calls[1].pc = "awaiting"
    /\ calls[1].tool = "search_media"
    /\ calls[1].args.type = "Audio"
    /\ Get(calls[1].request.params, "IncludeItemTypes") = Str("Audio")
    /\ calls[2].pc = "returned"
    /\ calls[2].tool = "search_media"
    /\ calls[2].args.type = "Movie"
    /\ Get(calls[2].request.params, "IncludeItemTypes") = Str("Movie")
    /\ Len(Get(calls[2].result.d, "items").xs) = 1
    /\ Keys(Get(calls[2].result.d, "items").xs[1].d) =
           <<"id", "name", "year", "genre", "overview">>

\* the filter keys each tool can send, with the argument each is taken from
FilterKeys(tool) ==
    CASE tool = "list_albums" -> {<<"Artists", "artist">>, <<"Genres", "genre">>}
      [] tool \in {"list_movies", "list_series"} -> {<<"Genres", "genre">>}

\* C14: a filter key is in the query exactly when the caller gave a non-empty
\* value, and then with that value: Artists and Genres for list_albums,
\* Genres for list_movies and list_series; an empty value sends no key, and
\* list_movies and list_series never send Artists.
C14_OptionalFilters ==
    \A c \in Calls : \A tool \in {"list_albums", "list_movies", "list_series"} :
        Started(c, tool) =>
            LET params == calls[c].request.params
            IN  /\ \A fk \in FilterKeys(tool) :
                    IF calls[c].args[fk[2]] /= ""
                    THEN Get(params, fk[1]) = Str(calls[c].args[fk[2]])
                    ELSE ~HasKey(params, fk[1])
                /\ tool /= "list_albums" => ~HasKey(params, "Artists")
                /\ \A i \in 1..Len(params) : params[i][2] /= Str("")

C14_Witness ==
    \E c \in Calls :
        /\ Started(c, "list_albums")
        /\ calls[c].args.artist = "Queen"
        /\ calls[c].args.genre = ""
        /\ Get(calls[c].request.params, "Artists") = Str("Queen")
        /\ ~HasKey(calls[c].request.params, "Genres")

\* C15: a returned result has the top-level key "error" exactly when the
\* configuration was incomplete; with it complete, whatever the upstream
\* server answered, a listing tool returns the keys total and items only,
\* library_stats its six keys, and get_stream_url keys among id, name,
\* stream_url, container and api_stream.
C15_ErrorIffIncomplete ==
    \A c \in Calls :
        calls[c].pc = "returned" =>
            LET result == calls[c].result
                tool == calls[c].tool
            IN  /\ result.t = "dict"
                /\ IsErrorResult(result) <=> Incomplete
                /\ Incomplete => Keys(result.d) = <<"error">>
                /\ ~Incomplete =>
                       /\ tool \in ListingTools => Keys(result.d) = <<"total", "items">>
                       /\ tool = "library_stats" =>
                              Keys(result.d) = [i \in 1..6 |-> StatsKeys[i][1]]
                       /\ tool = "get_stream_url" =>
                              Range(Keys(result.d)) \subseteq
                                  {"id", "name", "stream_url", "container", "api_stream"}
                       /\ tool \in ListingTools \cup {"library_stats", "get_stream_url"}

C15_Witness ==
    \E c \in Calls :
        /\ Answered(c, "get_stream_url")
        /\ HasKey(calls[c].data.d, "error")
        /\ ~HasKey(calls[c].result.d, "error")
        /\ Keys(calls[c].result.d) =
               <<"id", "name", "stream_url", "container", "api_stream">>

\* both runs of the invocation have returned
BothRuns == arg.fn = "two_runs" /\ ret /= NotReturned /\ ret.second /= NotReturned

\* the tools whose field sequence holds api_stream, for the arguments given
Keyed(tool, a) ==
    \/ tool \in {"get_album_tracks", "get_stream_url"}
    \/ tool = "search_media" /\ a.type = "Audio"

\* the projected items of a result with the raw items they are made from:
\* the result itself for get_stream_url, the items sequence for a listing
ProjectedOf(tool, result) ==
    IF tool = "get_stream_url" THEN <<result>> ELSE Get(result.d, "items").xs

RawOf(tool, data) ==
    IF tool = "get_stream_url" THEN <<data>>
    ELSE IF data.t = "list" THEN data.xs ELSE ItemsOf(data)

\* C16: two runs that differ only in the API key and get the same answer
\* return the same result for every tool whose field sequence is without
\* api_stream; search_media for Audio, get_album_tracks and get_stream_url
\* return results that differ at most in the api_stream value of an item
\* that has an Id, and an item that has one differs there.
C16_KeyOnlyInApiStream ==
    BothRuns =>
        LET tool == arg.tool
            one == ProjectedOf(tool, ret.first)
            two == ProjectedOf(tool, ret.second)
            raw == RawOf(tool, arg.data)
        IN  /\ ~Keyed(tool, arg.args) => ret.first = ret.second
            /\ tool = "library_stats" \/
                   /\ Len(one) = Len(two)
                   /\ Len(one) = Len(raw)
                   /\ tool /= "get_stream_url" =>
                          Get(ret.first.d, "total") = Get(ret.second.d, "total")
                   /\ \A i \in 1..Len(one) :
                        /\ DropKey(one[i].d, "api_stream") = DropKey(two[i].d, "api_stream")
                        /\ Keys(one[i].d) = Keys(two[i].d)
                        /\ ~Truthy(Get(raw[i].d, "Id")) => one[i] = two[i]
                        /\ one[i] /= two[i] =>
                               /\ Keyed(tool, arg.args)
                               /\ Truthy(Get(raw[i].d, "Id"))
                        /\ (Keyed(tool, arg.args) /\ Truthy(Get(raw[i].d, "Id"))) =>
                               Get(one[i].d, "api_stream") /= Get(two[i].d, "api_stream")

C16_Witness ==
    /\ BothRuns
    /\ arg.tool = "get_album_tracks"
    /\ ret.key = "k1"
    /\ JELLYFIN_API_KEY = "k2"
    /\ Len(ProjectedOf(arg.tool, ret.first)) = 2
    /\ Get(ProjectedOf(arg.tool, ret.first)[1].d, "api_stream") =
           Str("http://j/Audio/1/universal?api_key=k1")
    /\ Get(ProjectedOf(arg.tool, ret.second)[1].d, "api_stream") =
           Str("http://j/Audio/1/universal?api_key=k2")
    /\ ~HasKey(ProjectedOf(arg.tool, ret.first)[2].d, "api_stream")
    /\ ProjectedOf(arg.tool, ret.first)[2] = ProjectedOf(arg.tool, ret.second)[2]

\* C17: a listing tool other than get_recent returns one item per upstream
\* item, in the upstream order, an item of empty projection included, and no
\* item when Items is absent; total is the upstream TotalRecordCount, 0 when
\* absent, whatever the number of items returned.
C17_ItemsFollowUpstream ==
    \A c \in Calls : \A tool \in ListingTools \ {"get_recent"} :
        Answered(c, tool) =>
            LET data == calls[c].data.d
                raw == IF HasKey(data, "Items") THEN Get(data, "Items").xs ELSE <<>>
                items == ItemsOfResult(c)
            IN  /\ Len(items) = Len(raw)
                /\ \A i \in 1..Len(items) :
                    /\ \A k \in Range(Keys(items[i].d)) :
                           Get(items[i].d, k) = Extract(k, raw[i].d)
                    /\ \A k \in {"id", "name"} :
                           Extract(k, raw[i].d) /= Null =>
                               Get(items[i].d, k) = Extract(k, raw[i].d)
                /\ Get(calls[c].result.d, "total") =
                       (IF HasKey(data, "TotalRecordCount")
                        THEN Get(data, "TotalRecordCount") ELSE Num(0))

C17_Witness ==
    \E c \in Calls :
        /\ Answered(c, "get_playlists")
        /\ Get(calls[c].data.d, "Items") = List(<<Dict(<<>>), Dict(Song)>>)
        /\ Len(ItemsOfResult(c)) = 2
        /\ ItemsOfResult(c)[1] = Dict(<<>>)
        /\ Get(ItemsOfResult(c)[2].d, "id") = Str("1")
        /\ Get(calls[c].result.d, "total") = Num(1)

====
